---- MODULE Spec2Model ----
(***************************************************************************)
(* Model of the YARPC TChannel inbound dispatcher (handler.handle) and of  *)
(* its responseWriter, src/transport/tchannel/handler.go.                  *)
(*                                                                         *)
(* Spec    : the listener serving inbound calls one after another; the     *)
(*           user handler runs between HandleEnter and HandleReturn /      *)
(*           HandlePanic and drives the responseWriter through the         *)
(*           transport.ResponseWriter interface (AddHeaders, Write).       *)
(* SpecRW  : one responseWriter driven directly by an arbitrary caller     *)
(*           (AddHeaders, Write, Close in any order), as a unit test does. *)
(* SpecDL  : Spec with the clock: a deadline may pass while a handler runs. *)
(* SpecHTTP: the HTTP inbound, handler.ServeHTTP, serving one request.     *)
(* SpecEcho: Echo_Echo_Helper.WrapResponse followed by ToWire,             *)
(*           src/unnamed/part_000.                                         *)
(***************************************************************************)
EXTENDS Integers, Sequences, FiniteSets, TLC

VARIABLES
    pc,            \* "idle" | "handling" | "done" | "crashed" | "direct",
                   \* "http-" followed by one of the first three in SpecHTTP,
                   \* "echo-idle" | "echo-wrapped" | "echo-sent" | "echo-failed"
    served,        \* number of calls the listener has accepted so far
    call,          \* the inboundCall being served and its context
    rw,            \* the responseWriter struct of the current call, or NoRW
    resp,          \* the inboundCallResponse: what has reached the wire
    req,           \* what the dispatcher did on the request side
    out,           \* outcome of the last responseWriter operation
    hist           \* history of the current call / writer (observer)

vars == <<pc, served, call, rw, resp, req, out, hist>>

----------------------------------------------------------------------------
(* Bounds *)

MaxCalls == 2      \* calls served by the listener in one behaviour
MaxOps   == 4      \* responseWriter operations per call / per writer

----------------------------------------------------------------------------
(* Values *)

Nil == "nil"

\* Errors the transport can raise on each of its operations.
ErrArg2  == "arg2 writer failed"
ErrArg3  == "arg3 writer failed"
ErrWrite == "body write failed"
ErrClose == "body close failed"
\* A failing transport operation is modelled as having written nothing.

\* Fault plan of one responseWriter operation: which transport step fails.
WriteFaults == {"none", "arg2", "arg3", "write"}
CloseFaults == {"none", "close"}

\* Errors a user handler returns.
HandlerErrs == {"great sadness"}

\* ctx.Err() once the deadline of the context has passed.
DeadlineExceeded == "context deadline exceeded"

HKeys == {"foo", "X"}
HVals == {"bar", "y"}
EmptyHeaders == [k \in {} |-> ""]
HeaderMaps == UNION {[D -> HVals] : D \in (SUBSET HKeys) \ {{}}}

Chunks == {<<>>, <<1>>, <<2>>}

NoRW  == [made |-> FALSE]
NoReq == [made |-> FALSE]

Calls ==
    {[service |-> "curly", caller |-> "moe", method |-> "nyuck", format |-> "raw"],
     [service |-> "fake", caller |-> "somecaller", method |-> "hello", format |-> "json"]}

ReqHeaderMaps == {EmptyHeaders, [k \in {"k"} |-> "v"]}

----------------------------------------------------------------------------
(* transport.Headers *)

Lower(k) ==
    CASE k = "X"       -> "x"
      [] k = "Foo"     -> "foo"
      [] k = "X-Baz"   -> "x-baz"
      [] k = "X-Other" -> "x-other"
      [] OTHER         -> k

HeadersSet(headers, k, v) ==
    [x \in (DOMAIN headers) \cup {Lower(k)} |->
        IF x = Lower(k) THEN v ELSE headers[x]]

\* for k, v := range h { headers.Set(k, v) }.  The maps of HeaderMaps have
\* no two keys with the same lower-case form, so the iteration order of the
\* Go map does not show in the result.
RECURSIVE SetAll(_, _, _)
SetAll(headers, h, keys) ==
    IF keys = {} THEN headers
    ELSE LET k == CHOOSE x \in keys : TRUE
         IN  SetAll(HeadersSet(headers, k, h[k]), h, keys \ {k})

----------------------------------------------------------------------------
(* inboundCallResponse (the wire) *)

NoArg2 == [written |-> FALSE]

NewResponse ==
    [arg2Calls |-> 0,          \* calls of Arg2Writer
     arg3Calls |-> 0,          \* calls of Arg3Writer
     arg2      |-> NoArg2,     \* headers written and closed on arg2
     arg3      |-> <<>>,       \* body bytes written on arg3
     writes    |-> 0,          \* calls of bodyWriter.Write
     closes    |-> 0,          \* calls of bodyWriter.Close
     arg3Done  |-> FALSE,      \* arg3 stream closed successfully
     sysErrs   |-> <<>>]       \* system errors sent

\* The arg2 payload for a header map.  Format raw: the number of pairs, then
\* each key followed by its value; the other formats: an object, here the
\* set of its key/value members.
RECURSIVE PairList(_, _)
PairList(headers, keys) ==
    IF keys = {} THEN <<>>
    ELSE LET k == CHOOSE x \in keys : TRUE
         IN  <<k, headers[k]>> \o PairList(headers, keys \ {k})

encodeHeaders(format, headers) ==
    IF format = "raw"
    THEN <<Cardinality(DOMAIN headers)>> \o PairList(headers, DOMAIN headers)
    ELSE {<<k, headers[k]>> : k \in DOMAIN headers}

\* What the peer reads back from an arg2 payload.
decodeHeaders(format, payload) ==
    IF format = "raw"
    THEN LET n == payload[1]
             keys == {payload[2 * i] : i \in 1..n}
         IN  [k \in keys |->
                payload[1 + 2 * (CHOOSE i \in 1..n : payload[2 * i] = k)]]
    ELSE [k \in {m[1] : m \in payload} |->
            (CHOOSE m \in payload : m[1] = k)[2]]

\* writeHeaders(format, headers, getWriter): opens arg2, encodes, closes.
writeHeaders(r, format, headers, fault) ==
    IF fault = "arg2"
    THEN [resp |-> [r EXCEPT !.arg2Calls = @ + 1], err |-> ErrArg2]
    ELSE [resp |-> [r EXCEPT !.arg2Calls = @ + 1,
                             !.arg2 = [written |-> TRUE, format |-> format,
                                       headers |-> headers,
                                       payload |-> encodeHeaders(format, headers)]],
          err |-> Nil]

SendSystemError(r, e) == [r EXCEPT !.sysErrs = Append(@, e)]

SystemError(code, msg) == [code |-> code, msg |-> msg]
ErrTimeoutRequired == SystemError("ErrTimeoutRequired", "timeout required")
NoSysErr == SystemError("none", "")

----------------------------------------------------------------------------
(* responseWriter *)

newResponseWriter(c) ==
    [made         |-> TRUE,
     failedWith   |-> Nil,
     bodyWriter   |-> Nil,        \* Nil or "open"
     format       |-> c.format,
     headers      |-> EmptyHeaders,
     wroteHeaders |-> FALSE]

\* AddHeaders without the wroteHeaders check of lines 139-141.
AddHeadersUnchecked(w, h) ==
    [rw |-> [w EXCEPT !.headers = SetAll(w.headers, h, DOMAIN h)],
     panic |-> FALSE]

\* AddHeaders assigning h to the pending headers instead of merging it.
AddHeadersReplaces(w, h) ==
    IF w.wroteHeaders
    THEN [rw |-> w, panic |-> TRUE]
    ELSE [rw |-> [w EXCEPT !.headers = SetAll(EmptyHeaders, h, DOMAIN h)],
          panic |-> FALSE]

\* Result: the writer after the call and whether the call panicked.
AddHeaders(w, h) ==
    IF w.wroteHeaders
    THEN [rw |-> w, panic |-> TRUE]
    ELSE [rw |-> [w EXCEPT !.headers = SetAll(w.headers, h, DOMAIN h)],
          panic |-> FALSE]

\* writeUnfailed with the error of writeHeaders dropped instead of returned
\* at lines 154-158: the body stream is opened and written all the same.
writeUnfailedIgnoringFlushError(w, r, s, fault) ==
    LET w1 == [w EXCEPT !.wroteHeaders = TRUE]
        hd == IF ~w.wroteHeaders
              THEN writeHeaders(r, w.format, w.headers, fault)
              ELSE [resp |-> r, err |-> Nil]
        open == w1.bodyWriter = Nil
        r2 == IF open THEN [hd.resp EXCEPT !.arg3Calls = @ + 1] ELSE hd.resp
    IN  IF open /\ fault = "arg3"
        THEN [rw |-> [w1 EXCEPT !.failedWith = ErrArg3], resp |-> r2,
              n |-> 0, err |-> ErrArg3]
        ELSE
        LET w2 == [w1 EXCEPT !.bodyWriter = "open"]
            r3 == [r2 EXCEPT !.writes = @ + 1]
        IN  IF fault = "write"
            THEN [rw |-> [w2 EXCEPT !.failedWith = ErrWrite], resp |-> r3,
                  n |-> 0, err |-> ErrWrite]
            ELSE [rw |-> w2, resp |-> [r3 EXCEPT !.arg3 = @ \o s],
                  n |-> Len(s), err |-> Nil]

\* writeUnfailed without the "bodyWriter == nil" test of line 161: every
\* Write asks the response for its Arg3Writer.
writeUnfailedAlwaysOpens(w, r, s, fault) ==
    LET w1 == [w EXCEPT !.wroteHeaders = TRUE]
        hd == IF ~w.wroteHeaders
              THEN writeHeaders(r, w.format, w.headers, fault)
              ELSE [resp |-> r, err |-> Nil]
    IN  IF hd.err # Nil
        THEN [rw |-> [w1 EXCEPT !.failedWith = hd.err], resp |-> hd.resp,
              n |-> 0, err |-> hd.err]
        ELSE
        LET r2 == [hd.resp EXCEPT !.arg3Calls = @ + 1]
        IN  IF fault = "arg3"
            THEN [rw |-> [w1 EXCEPT !.failedWith = ErrArg3], resp |-> r2,
                  n |-> 0, err |-> ErrArg3]
            ELSE
            LET w2 == [w1 EXCEPT !.bodyWriter = "open"]
                r3 == [r2 EXCEPT !.writes = @ + 1]
            IN  IF fault = "write"
                THEN [rw |-> [w2 EXCEPT !.failedWith = ErrWrite], resp |-> r3,
                      n |-> 0, err |-> ErrWrite]
                ELSE [rw |-> w2, resp |-> [r3 EXCEPT !.arg3 = @ \o s],
                      n |-> Len(s), err |-> Nil]

\* Lines 152-174: Write on a writer that has not failed.
writeUnfailed(w, r, s, fault) ==
    LET w1 == [w EXCEPT !.wroteHeaders = TRUE]
        hd == IF ~w.wroteHeaders
              THEN writeHeaders(r, w.format, w.headers, fault)
              ELSE [resp |-> r, err |-> Nil]
    IN  IF hd.err # Nil
        THEN [rw |-> [w1 EXCEPT !.failedWith = hd.err], resp |-> hd.resp,
              n |-> 0, err |-> hd.err]
        ELSE
        LET open == w1.bodyWriter = Nil
            r2 == IF open THEN [hd.resp EXCEPT !.arg3Calls = @ + 1] ELSE hd.resp
        IN  IF open /\ fault = "arg3"
            THEN [rw |-> [w1 EXCEPT !.failedWith = ErrArg3], resp |-> r2,
                  n |-> 0, err |-> ErrArg3]
            ELSE
            LET w2 == [w1 EXCEPT !.bodyWriter = "open"]
                r3 == [r2 EXCEPT !.writes = @ + 1]
            IN  IF fault = "write"
                THEN [rw |-> [w2 EXCEPT !.failedWith = ErrWrite], resp |-> r3,
                      n |-> 0, err |-> ErrWrite]
                ELSE [rw |-> w2, resp |-> [r3 EXCEPT !.arg3 = @ \o s],
                      n |-> Len(s), err |-> Nil]

\* Write without the failedWith check of lines 148-150.
WriteNoStickyCheck(w, r, s, fault) == writeUnfailed(w, r, s, fault)

\* Write with bodyWriter.Write inside the "bodyWriter == nil" block of lines
\* 161-168: only the Write that opens the body stream writes its bytes.
WriteOnlyOnOpen(w, r, s, fault) ==
    IF w.failedWith # Nil
    THEN [rw |-> w, resp |-> r, n |-> 0, err |-> w.failedWith]
    ELSE IF w.wroteHeaders /\ w.bodyWriter # Nil
    THEN [rw |-> w, resp |-> r, n |-> Len(s), err |-> Nil]
    ELSE writeUnfailed(w, r, s, fault)

\* Result: writer and wire after the call, and the (n, err) returned.
Write(w, r, s, fault) ==
    IF w.failedWith # Nil
    THEN [rw |-> w, resp |-> r, n |-> 0, err |-> w.failedWith]
    ELSE writeUnfailed(w, r, s, fault)

\* Result: writer and wire after the call, and the error returned.
Close(w, r, fault) ==
    LET closing == w.bodyWriter # Nil
        err == IF closing /\ fault = "close" THEN ErrClose ELSE Nil
        r1  == IF closing
               THEN [r EXCEPT !.closes = @ + 1,
                              !.arg3Done = @ \/ (fault # "close")]
               ELSE r
    IN  [rw |-> w, resp |-> r1,
         err |-> IF w.failedWith # Nil THEN w.failedWith ELSE err]

----------------------------------------------------------------------------
(* handler.handle *)

NewReq == [arg2Reads |-> 0, arg3Reads |-> 0, bodyOpen |-> FALSE,
           bodyCloses |-> 0, treq |-> NoReq]

\* Outcome of the last responseWriter operation: the operation, the fault
\* the transport injected into it, and what the operation returned.
NoOut == [op |-> "none", fault |-> "none", n |-> 0, err |-> Nil, panic |-> FALSE]

NewHist ==
    [ops          |-> 0,        \* responseWriter operations so far
     writeCalls   |-> 0,        \* calls of rw.Write
     okWrites     |-> 0,        \* Write calls that returned a nil error
     rejected     |-> 0,        \* AddHeaders calls that panicked
     hdrsAtWrite  |-> NoArg2,   \* pending headers when Write was first called
     firstErr     |-> Nil,      \* error of the first Write that failed
     lastSet      |-> EmptyHeaders,  \* per lower-cased key, the value of the
                                \* last accepted AddHeaders that set it
     sent         |-> <<>>,     \* the slices of the Writes that returned nil
     rwCloses     |-> 0,        \* calls of rw.Close
     closeRet     |-> Nil,      \* error returned by the last rw.Close
     handlerCalls |-> 0,        \* invocations of Handler.Handle
     handlerRet   |-> "none",   \* "running", Nil, an error, or "panic"
     log          |-> <<>>]     \* dispatcher events in order

\* readRequest going on to the body when readHeaders fails, the return of
\* line 90 missing: the headers are then empty.
readRequestIgnoringHeaderError(c) ==
    IF ~c.arg3ok
    THEN [sysErr |-> SystemError("Unexpected", "failed to read body"),
          req |-> [NewReq EXCEPT !.arg2Reads = 1, !.arg3Reads = 1]]
    ELSE [sysErr |-> NoSysErr,
          req |-> [arg2Reads |-> 1, arg3Reads |-> 1, bodyOpen |-> TRUE,
                   bodyCloses |-> 0,
                   treq |-> [made      |-> TRUE,
                             Caller    |-> c.caller,
                             Service   |-> c.service,
                             Encoding  |-> c.format,
                             Procedure |-> c.method,
                             Headers   |-> IF c.arg2ok THEN c.headers ELSE EmptyHeaders,
                             Body      |-> "arg3"]]]

\* readRequest with Caller and Service taken from each other's accessor.
readRequestSwapped(c) ==
    IF ~c.arg2ok
    THEN [sysErr |-> SystemError("Unexpected", "failed to read headers"),
          req |-> [NewReq EXCEPT !.arg2Reads = 1]]
    ELSE IF ~c.arg3ok
    THEN [sysErr |-> SystemError("Unexpected", "failed to read body"),
          req |-> [NewReq EXCEPT !.arg2Reads = 1, !.arg3Reads = 1]]
    ELSE [sysErr |-> NoSysErr,
          req |-> [arg2Reads |-> 1, arg3Reads |-> 1, bodyOpen |-> TRUE,
                   bodyCloses |-> 0,
                   treq |-> [made      |-> TRUE,
                             Caller    |-> c.service,
                             Service   |-> c.caller,
                             Encoding  |-> c.format,
                             Procedure |-> c.method,
                             Headers   |-> c.headers,
                             Body      |-> "arg3"]]]

\* Lines 86-112: reading the request once the deadline is known.
readRequest(c) ==
    IF ~c.arg2ok
    THEN [sysErr |-> SystemError("Unexpected", "failed to read headers"),
          req |-> [NewReq EXCEPT !.arg2Reads = 1]]
    ELSE IF ~c.arg3ok
    THEN [sysErr |-> SystemError("Unexpected", "failed to read body"),
          req |-> [NewReq EXCEPT !.arg2Reads = 1, !.arg3Reads = 1]]
    ELSE [sysErr |-> NoSysErr,
          req |-> [arg2Reads |-> 1, arg3Reads |-> 1, bodyOpen |-> TRUE,
                   bodyCloses |-> 0,
                   treq |-> [made      |-> TRUE,
                             Caller    |-> c.caller,
                             Service   |-> c.service,
                             Encoding  |-> c.format,
                             Procedure |-> c.method,
                             Headers   |-> c.headers,
                             Body      |-> "arg3"]]]

\* handleEntry without the deadline check of lines 80-84.
handleEntryNoDeadlineCheck(c) == readRequest(c)

\* Lines 80-112: the checks before the handler is invoked.  c carries the
\* call's fields and what its context and readers do.  Result: the system
\* error sent (NoSysErr when the handler is to be invoked) and the request
\* side.
handleEntry(c) ==
    IF ~c.hasDeadline
    THEN [sysErr |-> ErrTimeoutRequired, req |-> NewReq]
    ELSE readRequest(c)

\* handleExit with rw.Close() and body.Close() called at the end of handle
\* instead of deferred: they run only when Handle returns nil.
handleExitNoDefer(w, r, q, herr, panicked, fault) ==
    LET sends == ~panicked /\ herr # Nil
        r1 == IF sends
              THEN SendSystemError(r, SystemError("Unexpected", herr))
              ELSE r
        runs == ~panicked /\ herr = Nil
        cl == IF runs THEN Close(w, r1, fault)
              ELSE [rw |-> w, resp |-> r1, err |-> Nil]
    IN  [rw |-> cl.rw, resp |-> cl.resp, closeErr |-> cl.err,
         rwCloses |-> IF runs THEN 1 ELSE 0,
         req |-> [q EXCEPT !.bodyCloses = IF runs THEN @ + 1 ELSE @],
         log |-> (IF panicked THEN <<"Handle panicked">> ELSE <<"Handle returned">>)
                 \o (IF sends THEN <<"SendSystemError">> ELSE <<>>)
                 \o (IF runs THEN <<"rw.Close">> ELSE <<>>)
                 \o (IF runs /\ w.bodyWriter # Nil THEN <<"bodyWriter.Close">> ELSE <<>>)
                 \o (IF runs THEN <<"body.Close">> ELSE <<>>)]

\* handleExit with the deferred calls run in the order of their defer
\* statements, body.Close() (line 99) before rw.Close() (line 102).
handleExitDefersInOrder(w, r, q, herr, panicked, fault) ==
    LET sends == ~panicked /\ herr # Nil
        r1 == IF sends
              THEN SendSystemError(r, SystemError("Unexpected", herr))
              ELSE r
        cl == Close(w, r1, fault)
    IN  [rw |-> cl.rw, resp |-> cl.resp, closeErr |-> cl.err, rwCloses |-> 1,
         req |-> [q EXCEPT !.bodyCloses = @ + 1],
         log |-> (IF panicked THEN <<"Handle panicked">> ELSE <<"Handle returned">>)
                 \o (IF sends THEN <<"SendSystemError">> ELSE <<>>)
                 \o <<"body.Close">>
                 \o <<"rw.Close">>
                 \o (IF w.bodyWriter # Nil THEN <<"bodyWriter.Close">> ELSE <<>>)]

\* Lines 114-118 followed by the deferred calls of lines 102 and 99: what
\* happens when Handler.Handle returns herr, or panics (panicked = TRUE).
handleExit(w, r, q, herr, panicked, fault) ==
    LET sends == ~panicked /\ herr # Nil
        r1 == IF sends
              THEN SendSystemError(r, SystemError("Unexpected", herr))
              ELSE r
        cl == Close(w, r1, fault)
    IN  [rw |-> cl.rw, resp |-> cl.resp, closeErr |-> cl.err, rwCloses |-> 1,
         req |-> [q EXCEPT !.bodyCloses = @ + 1],
         log |-> (IF panicked THEN <<"Handle panicked">> ELSE <<"Handle returned">>)
                 \o (IF sends THEN <<"SendSystemError">> ELSE <<>>)
                 \o <<"rw.Close">>
                 \o (IF w.bodyWriter # Nil THEN <<"bodyWriter.Close">> ELSE <<>>)
                 \o <<"body.Close">>]

----------------------------------------------------------------------------
(* Observers *)

\* The value each lower-cased key has once h was added over old.
LastWriterWins(old, h) ==
    [k \in (DOMAIN old) \cup {Lower(x) : x \in DOMAIN h} |->
        IF \E x \in DOMAIN h : Lower(x) = k
        THEN h[CHOOSE x \in DOMAIN h : Lower(x) = k]
        ELSE old[k]]

AfterAddHeaders(h, res) ==
    [hist EXCEPT !.ops = @ + 1,
                 !.rejected = IF res.panic THEN @ + 1 ELSE @,
                 !.lastSet = IF res.panic THEN @ ELSE LastWriterWins(@, h)]

AfterWrite(s, res) ==
    [hist EXCEPT !.ops = @ + 1,
                 !.sent = IF res.err = Nil THEN @ \o s ELSE @,
                 !.writeCalls = @ + 1,
                 !.okWrites = IF res.err = Nil THEN @ + 1 ELSE @,
                 !.hdrsAtWrite = IF @ = NoArg2
                                 THEN [written |-> TRUE, format |-> rw.format,
                                       headers |-> rw.headers]
                                 ELSE @,
                 !.firstErr = IF @ = Nil THEN res.err ELSE @]

----------------------------------------------------------------------------
(* The listener serving calls: Spec *)

Init ==
    /\ pc = "idle"
    /\ served = 0
    /\ call \in [service : {"curly"}, caller : {"moe"}, method : {"nyuck"},
                 format : {"raw"}, headers : {EmptyHeaders},
                 hasDeadline : {TRUE}, expired : {FALSE},
                 arg2ok : {TRUE}, arg3ok : {TRUE}]
    /\ rw = NoRW
    /\ resp = NewResponse
    /\ req = NewReq
    /\ out = NoOut
    /\ hist = NewHist

\* A call arrives and handler.handle runs up to the invocation of the user
\* handler, or to its early return.
HandleEnter(c) ==
    /\ pc \in {"idle", "done"}
    /\ served < MaxCalls
    /\ LET e == handleEntry(c)
       IN  /\ call' = c
           /\ served' = served + 1
           /\ req' = e.req
           /\ out' = NoOut
           /\ IF e.sysErr # NoSysErr
              THEN /\ pc' = "done"
                   /\ rw' = NoRW
                   /\ resp' = SendSystemError(NewResponse, e.sysErr)
                   /\ hist' = [NewHist EXCEPT !.log = <<"SendSystemError">>]
              ELSE /\ pc' = "handling"
                   /\ rw' = newResponseWriter(c)
                   /\ resp' = NewResponse
                   /\ hist' = [NewHist EXCEPT !.handlerCalls = 1,
                                              !.handlerRet = "running",
                                              !.log = <<"Handle">>]

\* The exit of handler.handle once the user handler is over.
Exit(herr, panicked, fault) ==
    LET x == handleExit(rw, resp, req, herr, panicked, fault)
    IN  /\ pc' = IF panicked THEN "crashed" ELSE "done"
        /\ rw' = x.rw
        /\ resp' = x.resp
        /\ req' = x.req
        /\ hist' = [hist EXCEPT !.rwCloses = @ + x.rwCloses,
                                !.closeRet = x.closeErr,
                                !.handlerRet = IF panicked THEN "panic" ELSE herr,
                                !.log = @ \o x.log]
        /\ UNCHANGED <<served, call>>

\* The user handler calls rw.AddHeaders(h).  A panic of AddHeaders is either
\* recovered by the user handler, which goes on, or leaves Handle; fault is
\* what the transport does to the deferred rw.Close in the latter case.
HandlerAddHeaders(h, recovers, fault) ==
    /\ pc = "handling"
    /\ hist.ops < MaxOps
    /\ LET res == AddHeaders(rw, h)
       IN  /\ out' = [op |-> "AddHeaders", fault |-> "none", n |-> 0, err |-> Nil, panic |-> res.panic]
           /\ IF res.panic /\ ~recovers
              THEN Exit(Nil, TRUE, fault)
              ELSE /\ rw' = res.rw
                   /\ hist' = AfterAddHeaders(h, res)
                   /\ UNCHANGED <<pc, served, call, resp, req>>

\* The user handler calls rw.Write(s).
HandlerWrite(s, fault) ==
    /\ pc = "handling"
    /\ hist.ops < MaxOps
    /\ LET res == Write(rw, resp, s, fault)
       IN  /\ rw' = res.rw
           /\ resp' = res.resp
           /\ out' = [op |-> "Write", fault |-> fault, n |-> res.n, err |-> res.err, panic |-> FALSE]
           /\ hist' = AfterWrite(s, res)
    /\ UNCHANGED <<pc, served, call, req>>

\* The deadline of the call's context passes while the user handler runs:
\* the context is cancelled.  handle itself never looks at it again.
DeadlineExpires ==
    /\ pc = "handling"
    /\ ~call.expired
    /\ call' = [call EXCEPT !.expired = TRUE]
    /\ UNCHANGED <<pc, served, rw, resp, req, out, hist>>

\* The user handler returns herr: Nil, an error of its own, or ctx.Err()
\* once the context is cancelled.
HandleReturn(herr, fault) ==
    /\ pc = "handling"
    /\ herr = DeadlineExceeded => call.expired
    /\ out' = out
    /\ Exit(herr, FALSE, fault)

\* The user handler panics.
HandlePanic(fault) ==
    /\ pc = "handling"
    /\ out' = out
    /\ Exit(Nil, TRUE, fault)

InboundCalls ==
    {[service |-> c.service, caller |-> c.caller, method |-> c.method,
      format |-> c.format, headers |-> h, hasDeadline |-> d,
      expired |-> FALSE, arg2ok |-> a2, arg3ok |-> a3] :
        c \in Calls, h \in ReqHeaderMaps, d \in BOOLEAN,
        a2 \in BOOLEAN, a3 \in BOOLEAN}

Next ==
    \/ \E c \in InboundCalls : HandleEnter(c)
    \/ \E h \in HeaderMaps, recovers \in BOOLEAN, fault \in CloseFaults :
            HandlerAddHeaders(h, recovers, fault)
    \/ \E s \in Chunks, fault \in WriteFaults : HandlerWrite(s, fault)
    \/ \E herr \in {Nil} \cup HandlerErrs, fault \in CloseFaults : HandleReturn(herr, fault)
    \/ \E fault \in CloseFaults : HandlePanic(fault)

Spec == Init /\ [][Next]_vars

\* The listener with the clock: the deadline of a call may pass while its
\* handler runs, and the handler may then return ctx.Err().
NextDL ==
    \/ \E c \in InboundCalls : HandleEnter(c)
    \/ \E h \in HeaderMaps, recovers \in BOOLEAN, fault \in CloseFaults :
            HandlerAddHeaders(h, recovers, fault)
    \/ \E s \in Chunks, fault \in WriteFaults : HandlerWrite(s, fault)
    \/ \E herr \in {Nil, DeadlineExceeded} \cup HandlerErrs, fault \in CloseFaults :
            HandleReturn(herr, fault)
    \/ \E fault \in CloseFaults : HandlePanic(fault)
    \/ DeadlineExpires

SpecDL == Init /\ [][NextDL]_vars

----------------------------------------------------------------------------
(* One responseWriter used directly: SpecRW *)

InitRW ==
    /\ pc = "direct"
    /\ served = 0
    /\ call \in [service : {"curly"}, caller : {"moe"}, method : {"nyuck"},
                 format : {"raw", "json"}, headers : {EmptyHeaders},
                 hasDeadline : {TRUE}, expired : {FALSE},
                 arg2ok : {TRUE}, arg3ok : {TRUE}]
    /\ rw = newResponseWriter(call)
    /\ resp = NewResponse
    /\ req = NewReq
    /\ out = NoOut
    /\ hist = NewHist

DirectAddHeaders(h) ==
    /\ pc = "direct"
    /\ hist.ops < MaxOps
    /\ LET res == AddHeaders(rw, h)
       IN  /\ rw' = res.rw
           /\ out' = [op |-> "AddHeaders", fault |-> "none", n |-> 0, err |-> Nil, panic |-> res.panic]
           /\ hist' = AfterAddHeaders(h, res)
    /\ UNCHANGED <<pc, served, call, resp, req>>

DirectWrite(s, fault) ==
    /\ pc = "direct"
    /\ hist.ops < MaxOps
    /\ LET res == Write(rw, resp, s, fault)
       IN  /\ rw' = res.rw
           /\ resp' = res.resp
           /\ out' = [op |-> "Write", fault |-> fault, n |-> res.n, err |-> res.err, panic |-> FALSE]
           /\ hist' = AfterWrite(s, res)
    /\ UNCHANGED <<pc, served, call, req>>

DirectClose(fault) ==
    /\ pc = "direct"
    /\ hist.ops < MaxOps
    /\ LET res == Close(rw, resp, fault)
       IN  /\ rw' = res.rw
           /\ resp' = res.resp
           /\ out' = [op |-> "Close", fault |-> fault, n |-> 0, err |-> res.err, panic |-> FALSE]
           /\ hist' = [hist EXCEPT !.ops = @ + 1, !.rwCloses = @ + 1,
                                   !.closeRet = res.err]
    /\ UNCHANGED <<pc, served, call, req>>

NextRW ==
    \/ \E h \in HeaderMaps : DirectAddHeaders(h)
    \/ \E s \in Chunks, fault \in WriteFaults : DirectWrite(s, fault)
    \/ \E fault \in CloseFaults : DirectClose(fault)

SpecRW == InitRW /\ [][NextRW]_vars

----------------------------------------------------------------------------
(* The HTTP inbound: SpecHTTP.  handler.ServeHTTP and its response writer  *)
(* as sections 4.3, 4.4, 6.1 and 7 of the specification and the tests of   *)
(* src/v2/yarpchttp/handler_test.go describe them.                         *)

MaxHTTPOps == 2    \* response writer operations of one HTTP handler run

\* An HTTP header name, split at the end of its "Rpc-Header-" / "Rpc-"
\* prefix when it has one.
HeaderName(prefix, rest) == [prefix |-> prefix, rest |-> rest]

CallerHeader          == HeaderName("Rpc-", "Caller")
ServiceHeader         == HeaderName("Rpc-", "Service")
ProcedureHeader       == HeaderName("Rpc-", "Procedure")
EncodingHeader        == HeaderName("Rpc-", "Encoding")
ShardKeyHeader        == HeaderName("Rpc-", "Shard-Key")
RoutingKeyHeader      == HeaderName("Rpc-", "Routing-Key")
RoutingDelegateHeader == HeaderName("Rpc-", "Routing-Delegate")
TTLMSHeader           == HeaderName("", "Context-TTL-MS")
ApplicationHeaderPrefix == "Rpc-Header-"

FromPairs(P) == [n \in {p[1] : p \in P} |-> (CHOOSE p \in P : p[1] = n)[2]]

Get(headers, name) == IF name \in DOMAIN headers THEN headers[name] ELSE ""

\* The requests sent to the inbound.
RequiredPairs(enc) ==
    {<<CallerHeader, "moe">>, <<ServiceHeader, "curly">>,
     <<ProcedureHeader, "nyuck">>, <<EncodingHeader, enc>>}

RoutingPairs ==
    {<<ShardKeyHeader, "shard">>, <<RoutingKeyHeader, "routekey">>,
     <<RoutingDelegateHeader, "routedelegate">>}

Drops ==
    {{}, {CallerHeader}, {ServiceHeader}, {ProcedureHeader}, {EncodingHeader},
     {CallerHeader, ServiceHeader, ProcedureHeader, EncodingHeader}}

TTLValues == {"1000", "100", "not a number", ""}     \* "": header absent

ExtraPairs ==
    {{},
     {<<HeaderName(ApplicationHeaderPrefix, "Foo"), "bar">>},
     {<<HeaderName(ApplicationHeaderPrefix, "Foo"), "bar">>,
      <<HeaderName("", "X-Baz"), "bat">>},
     {<<HeaderName("Rpc-", "Foo"), "ignored">>,
      <<HeaderName("", "X-Other"), "q">>, <<HeaderName("", "X-Baz"), "bat">>}}

GrabHeaders == {{}, {"x-baz"}}

HTTPRequests ==
    {[method  |-> m,
      headers |-> FromPairs({p \in RequiredPairs(enc) : p[1] \notin drop}
                            \cup (IF ttl = "" THEN {} ELSE {<<TTLMSHeader, ttl>>})
                            \cup (IF routing THEN RoutingPairs ELSE {})
                            \cup extra),
      grabHeaders |-> grab,
      registered  |-> registered] :
        m \in {"POST", "GET"}, enc \in {"raw", "json"}, drop \in Drops,
        ttl \in TTLValues, routing \in BOOLEAN, extra \in ExtraPairs,
        grab \in GrabHeaders, registered \in BOOLEAN}

NoHTTPRequest ==
    [method |-> "", headers |-> FromPairs({}), grabHeaders |-> {},
     registered |-> FALSE]

\* parseTTL with the parse error dropped: the zero value stands for it.
parseTTLIgnoringError(v) ==
    CASE v = "1000" -> 1000
      [] v = "100"  -> 100
      [] OTHER      -> 0

\* strconv on the value of Context-TTL-MS: milliseconds, -1 when the value
\* is not an integer.
parseTTL(v) ==
    CASE v = "1000" -> 1000
      [] v = "100"  -> 100
      [] OTHER      -> -1

\* Error codes and their HTTP status (section 7).
YarpcError(code, msg) == [code |-> code, msg |-> msg]
NoError == YarpcError("ok", "")

statusCode(code) ==
    CASE code = "ok"                -> 200
      [] code = "invalid-argument"  -> 400
      [] code = "not-found"         -> 404
      [] code = "unimplemented"     -> 404
      [] code = "deadline-exceeded" -> 504
      [] code = "unavailable"       -> 503
      [] OTHER                      -> 500     \* unknown, internal

\* Errors an HTTP handler returns: an unclassified error and a classified one.
HTTPHandlerErrs ==
    {YarpcError("unknown", "great sadness"),
     YarpcError("invalid-argument", "bad argument")}

\* applicationHeaders taking every Rpc- header for a user header.
applicationHeadersAnyRpc(r) ==
    LET hs == r.headers
        prefixed == {n \in DOMAIN hs : n.prefix \in {ApplicationHeaderPrefix, "Rpc-"}}
        grabbed  == {n \in DOMAIN hs : n.prefix = "" /\ Lower(n.rest) \in r.grabHeaders}
    IN  FromPairs({<<Lower(n.rest), hs[n]>> : n \in prefixed \cup grabbed})

\* The user headers of a request: Rpc-Header-<X> under lower(<X>), and the
\* headers of the allowlist under their lower-cased name.
applicationHeaders(r) ==
    LET hs == r.headers
        prefixed == {n \in DOMAIN hs : n.prefix = ApplicationHeaderPrefix}
        grabbed  == {n \in DOMAIN hs : n.prefix = "" /\ Lower(n.rest) \in r.grabHeaders}
    IN  FromPairs({<<Lower(n.rest), hs[n]>> : n \in prefixed \cup grabbed})

NewHTTPReq == [chooses |-> 0, chosen |-> <<>>, treq |-> NoReq, ttl |-> 0]

\* Routing a validated request: Router.Choose, then the TTL, then the
\* Request handed to the handler.
routeRequest(r) ==
    LET hs == r.headers
        routed == [NewHTTPReq EXCEPT !.chooses = 1,
                      !.chosen = <<Get(hs, ServiceHeader), Get(hs, ProcedureHeader)>>]
    IN  IF ~r.registered
        THEN [err |-> YarpcError("unimplemented", "unrecognized procedure"),
              req |-> routed]
        ELSE IF TTLMSHeader \notin DOMAIN hs
        THEN [err |-> YarpcError("invalid-argument", "missing TTL"), req |-> routed]
        ELSE IF parseTTL(hs[TTLMSHeader]) < 0
        THEN [err |-> YarpcError("invalid-argument", "invalid TTL"), req |-> routed]
        ELSE [err |-> NoError,
              req |-> [routed EXCEPT
                        !.ttl = parseTTL(hs[TTLMSHeader]),
                        !.treq = [made            |-> TRUE,
                                  Caller          |-> Get(hs, CallerHeader),
                                  Service         |-> Get(hs, ServiceHeader),
                                  Transport       |-> "http",
                                  Encoding        |-> Get(hs, EncodingHeader),
                                  Procedure       |-> Get(hs, ProcedureHeader),
                                  ShardKey        |-> Get(hs, ShardKeyHeader),
                                  RoutingKey      |-> Get(hs, RoutingKeyHeader),
                                  RoutingDelegate |-> Get(hs, RoutingDelegateHeader),
                                  Headers         |-> applicationHeaders(r),
                                  Body            |-> "request body"]]]

\* serveEntry without the checks of the method and of the required headers.
serveEntryUnvalidated(r) == routeRequest(r)

\* ServeHTTP up to the invocation of the procedure handler.  Result: the
\* error that ends the request there (NoError when the handler is to be
\* invoked) and the request side.
serveEntry(r) ==
    LET missing == {n \in {CallerHeader, ServiceHeader, ProcedureHeader, EncodingHeader} :
                        Get(r.headers, n) = ""}
    IN  IF r.method # "POST"
        THEN [err |-> YarpcError("not-found", "request method was not POST"),
              req |-> NewHTTPReq]
        ELSE IF missing # {}
        THEN [err |-> YarpcError("invalid-argument", "missing required header"),
              req |-> NewHTTPReq]
        ELSE routeRequest(r)

\* The HTTP response as the client records it.
NewHTTPResponse ==
    [status |-> 0, contentType |-> <<>>, headers |-> FromPairs({}),
     body |-> <<>>, finished |-> FALSE, aborted |-> FALSE]

\* errorBody without the line end.
errorBodyNoNewline(service, procedure, msg) ==
    <<"error for service \"", service, "\" and procedure \"", procedure,
      "\": ", msg>>

\* The text of an error response body, piece by piece.
errorBody(service, procedure, msg) ==
    <<"error for service \"", service, "\" and procedure \"", procedure,
      "\": ", msg, "\n">>

\* The response writer adapter (section 4.4).
newHTTPResponseWriter ==
    [made |-> TRUE, headers |-> EmptyHeaders, wrote |-> FALSE]

\* flushHeaders leaving the Content-Type unset.
flushHeadersNoContentType(w, r, encoding) ==
    [r EXCEPT !.status = 200,
              !.headers = FromPairs({<<HeaderName(ApplicationHeaderPrefix, k), w.headers[k]>> :
                                        k \in DOMAIN w.headers})]

\* Flushing the pending headers: each under its Rpc-Header- name.
flushHeaders(w, r, encoding) ==
    [r EXCEPT !.status = 200,
              !.contentType = <<"application/", encoding>>,
              !.headers = FromPairs({<<HeaderName(ApplicationHeaderPrefix, k), w.headers[k]>> :
                                        k \in DOMAIN w.headers})]

httpAddHeaders(w, h) ==
    IF w.wrote
    THEN [rw |-> w, panic |-> TRUE]
    ELSE [rw |-> [w EXCEPT !.headers = SetAll(w.headers, h, DOMAIN h)],
          panic |-> FALSE]

httpWrite(w, r, s, encoding) ==
    LET r1 == IF w.wrote THEN r ELSE flushHeaders(w, r, encoding)
    IN  [rw |-> [w EXCEPT !.wrote = TRUE],
         resp |-> [r1 EXCEPT !.body = @ \o s]]

\* The end of ServeHTTP: the handler returned herr (NoError for nil); a
\* panic arrives here as the Unknown error the recovery barrier made of it.
serveExit(w, r, t, herr) ==
    IF w.wrote
    THEN [r EXCEPT !.finished = TRUE, !.aborted = herr # NoError]
    ELSE IF herr = NoError
    THEN [flushHeaders(w, r, t.Encoding) EXCEPT !.finished = TRUE]
    ELSE [r EXCEPT !.status = statusCode(herr.code),
                   !.contentType = <<"text/plain; charset=utf8">>,
                   !.body = errorBody(t.Service, t.Procedure, herr.msg),
                   !.finished = TRUE]

\* The response to a request that never reaches the handler.
rejectResponse(r, err) ==
    [NewHTTPResponse EXCEPT
        !.status = statusCode(err.code),
        !.contentType = <<"text/plain; charset=utf8">>,
        !.body = errorBody(Get(r.headers, ServiceHeader),
                           Get(r.headers, ProcedureHeader), err.msg),
        !.finished = TRUE]

InitHTTP ==
    /\ pc = "http-idle"
    /\ served = 0
    /\ call = NoHTTPRequest
    /\ rw = NoRW
    /\ resp = NewHTTPResponse
    /\ req = NewHTTPReq
    /\ out = NoOut
    /\ hist = NewHist

\* A request arrives; ServeHTTP runs up to the handler or to its rejection.
\* Requests share no state, so a behaviour follows one request.
ServeHTTP(r) ==
    /\ pc = "http-idle"
    /\ LET e == serveEntry(r)
       IN  /\ call' = r
           /\ served' = served + 1
           /\ req' = e.req
           /\ out' = NoOut
           /\ IF e.err # NoError
              THEN /\ pc' = "http-done"
                   /\ rw' = NoRW
                   /\ resp' = rejectResponse(r, e.err)
                   /\ hist' = NewHist
              ELSE /\ pc' = "http-handling"
                   /\ rw' = newHTTPResponseWriter
                   /\ resp' = NewHTTPResponse
                   /\ hist' = [NewHist EXCEPT !.handlerCalls = 1,
                                              !.handlerRet = "running"]

HTTPHandlerAddHeaders(h) ==
    /\ pc = "http-handling"
    /\ hist.ops < MaxHTTPOps
    /\ LET res == httpAddHeaders(rw, h)
       IN  /\ rw' = res.rw
           /\ out' = [op |-> "AddHeaders", fault |-> "none", n |-> 0, err |-> Nil, panic |-> res.panic]
           /\ hist' = AfterAddHeaders(h, res)
    /\ UNCHANGED <<pc, served, call, resp, req>>

HTTPHandlerWrite(s) ==
    /\ pc = "http-handling"
    /\ hist.ops < MaxHTTPOps
    /\ LET res == httpWrite(rw, resp, s, req.treq.Encoding)
       IN  /\ rw' = res.rw
           /\ resp' = res.resp
           /\ out' = [op |-> "Write", fault |-> "none", n |-> Len(s), err |-> Nil, panic |-> FALSE]
           /\ hist' = [hist EXCEPT !.ops = @ + 1, !.writeCalls = @ + 1,
                                   !.okWrites = @ + 1, !.sent = @ \o s]
    /\ UNCHANGED <<pc, served, call, req>>

\* The handler returns herr (NoError for nil).
HTTPHandleReturn(herr) ==
    /\ pc = "http-handling"
    /\ pc' = "http-done"
    /\ resp' = serveExit(rw, resp, req.treq, herr)
    /\ out' = [op |-> "Handle", fault |-> "none", n |-> 0, err |-> herr.msg, panic |-> FALSE]
    /\ hist' = [hist EXCEPT !.handlerRet = herr.code]
    /\ UNCHANGED <<served, call, rw, req>>

\* The handler panics; the recovery barrier turns the panic into Unknown.
HTTPHandlePanic ==
    /\ pc = "http-handling"
    /\ pc' = "http-done"
    /\ resp' = serveExit(rw, resp, req.treq,
                         YarpcError("unknown", "panic: oops I panicked!"))
    /\ out' = [op |-> "Handle", fault |-> "none", n |-> 0,
               err |-> "panic: oops I panicked!", panic |-> TRUE]
    /\ hist' = [hist EXCEPT !.handlerRet = "panic"]
    /\ UNCHANGED <<served, call, rw, req>>

NextHTTP ==
    \/ \E r \in HTTPRequests : ServeHTTP(r)
    \/ \E h \in HeaderMaps : HTTPHandlerAddHeaders(h)
    \/ \E s \in Chunks : HTTPHandlerWrite(s)
    \/ \E herr \in {NoError} \cup HTTPHandlerErrs : HTTPHandleReturn(herr)
    \/ HTTPHandlePanic

SpecHTTP == InitHTTP /\ [][NextHTTP]_vars

----------------------------------------------------------------------------
(* The echo service's result helper: SpecEcho.  Echo_Echo_Helper and       *)
(* Echo_Echo_Result of src/unnamed/part_000, used as the comment of        *)
(* WrapResponse shows: wrap what echo returned, then serialize the result. *)

MaxEchoCalls == 3  \* echo calls whose outcome is wrapped in one behaviour

\* *Pong values: nil, or a Pong whose own ToWire returns wireErr.
ErrPong == "pong failed to validate"
NilPong == [isNil |-> TRUE, beep |-> "", wireErr |-> Nil]
Pongs ==
    {NilPong} \cup {[isNil |-> FALSE, beep |-> b, wireErr |-> e] :
                        b \in {"hello", "bye", ""}, e \in {Nil, ErrPong}}

\* Errors echo returns.
EchoErrs == {"great sadness", "unexpected EOF"}

\* *Echo_Echo_Result values.
NilResult == [isNil |-> TRUE, Success |-> NilPong]

\* Result: the (*Echo_Echo_Result, error) pair returned.
WrapResponse(success, err) ==
    IF err = Nil
    THEN [result |-> [isNil |-> FALSE, Success |-> success], err |-> Nil]
    ELSE [result |-> NilResult, err |-> err]

\* wire.Value{} and the struct value of a list of fields.
NoWire == [isStruct |-> FALSE, fields |-> <<>>]
NewValueStruct(fields) == [isStruct |-> TRUE, fields |-> fields]

\* v.Success.ToWire(): the Pong as a struct, or the Pong's own error.
SuccessToWire(p) ==
    IF p.wireErr # Nil
    THEN [value |-> NoWire, err |-> p.wireErr]
    ELSE [value |-> NewValueStruct(<<[ID |-> 1, Value |-> p.beep]>>), err |-> Nil]

ErrFieldCount(i) ==
    <<"Echo_Echo_Result should have exactly one field: got ", i, " fields">>

\* (*Echo_Echo_Result).ToWire on a non-nil v.  Result: the (wire.Value,
\* error) pair returned.
Echo_Echo_Result_ToWire(v) ==
    LET set == ~v.Success.isNil
        w == IF set THEN SuccessToWire(v.Success) ELSE [value |-> NoWire, err |-> Nil]
        fields == IF set /\ w.err = Nil THEN <<[ID |-> 0, Value |-> w.value]>> ELSE <<>>
        i == Len(fields)
    IN  IF set /\ w.err # Nil
        THEN [value |-> w.value, err |-> w.err]
        ELSE IF i # 1
        THEN [value |-> NoWire, err |-> ErrFieldCount(i)]
        ELSE [value |-> NewValueStruct(fields), err |-> Nil]

NoEchoCall == [success |-> NilPong, err |-> Nil]
NoWrapped == [result |-> NilResult, err |-> Nil]
NoSerialized == [value |-> NoWire, err |-> Nil]

InitEcho ==
    /\ pc = "echo-idle"
    /\ served = 0
    /\ call = NoEchoCall
    /\ rw = NoRW
    /\ resp = NoWrapped
    /\ req = NewReq
    /\ out = NoSerialized
    /\ hist = NewHist

\* value, err := echo(args); result, err := WrapResponse(value, err)
EchoWrapResponse(success, err) ==
    /\ pc \in {"echo-idle", "echo-sent", "echo-failed"}
    /\ served < MaxEchoCalls
    /\ pc' = "echo-wrapped"
    /\ served' = served + 1
    /\ call' = [success |-> success, err |-> err]
    /\ resp' = WrapResponse(success, err)
    /\ out' = NoSerialized
    /\ UNCHANGED <<rw, req, hist>>

\* if err != nil { return fmt.Errorf("unexpected error from echo: %v", err) }
EchoReject ==
    /\ pc = "echo-wrapped"
    /\ resp.err # Nil
    /\ pc' = "echo-failed"
    /\ UNCHANGED <<served, call, rw, resp, req, out, hist>>

\* serialize(result): result.ToWire().
EchoSerialize ==
    /\ pc = "echo-wrapped"
    /\ resp.err = Nil
    /\ out' = Echo_Echo_Result_ToWire(resp.result)
    /\ pc' = IF out'.err = Nil THEN "echo-sent" ELSE "echo-failed"
    /\ UNCHANGED <<served, call, rw, resp, req, hist>>

NextEcho ==
    \/ \E success \in Pongs, err \in {Nil} \cup EchoErrs : EchoWrapResponse(success, err)
    \/ EchoReject
    \/ EchoSerialize

SpecEcho == InitEcho /\ [][NextEcho]_vars

TypeOK ==
    pc \in {"idle", "handling", "done", "crashed", "direct",
            "http-idle", "http-handling", "http-done",
            "echo-idle", "echo-wrapped", "echo-sent", "echo-failed"}

----------------------------------------------------------------------------
(* Properties *)

\* The call is over: handle has returned, or a panic has left it.
CallOver == pc \in {"done", "crashed"}

\* A success response is complete on the wire.
SuccessSent == resp.arg2.written /\ resp.arg3Done

\* The step is a call of the named responseWriter operation.
IsStep(op) == hist'.ops = hist.ops + 1 /\ out'.op = op

\* C1: for every call that handle has returned from, exactly one terminal
\* wire event occurred: a completed success response (headers flushed and
\* arg3 closed) or one system error, never both and never neither.
C1_ExactlyOneTerminalEvent ==
    pc = "done" =>
        \/ SuccessSent /\ Len(resp.sysErrs) = 0
        \/ ~SuccessSent /\ Len(resp.sysErrs) = 1

\* C2: once a Write has succeeded, (a) every later AddHeaders is rejected
\* and changes neither the writer nor the wire, (b) the headers on the wire
\* are the pending headers as they stood when Write was first called, and
\* (c) a Close that follows, the transport raising no error in any Write or
\* in the Close, closes the body stream and returns no error.
C2_HeadersFrozenAfterWrite ==
    [][ /\ (hist.okWrites > 0 /\ IsStep("AddHeaders"))
            => out'.panic /\ rw' = rw /\ resp' = resp
        /\ hist'.okWrites > 0
            => /\ resp'.arg2.written
               /\ resp'.arg2.headers = hist'.hdrsAtWrite.headers
               /\ rw'.headers = hist'.hdrsAtWrite.headers
        /\ (hist.okWrites > 0 /\ hist.firstErr = Nil /\ IsStep("Close")
              /\ out'.fault = "none")
            => out'.err = Nil /\ resp'.arg3Done /\ resp'.closes = resp.closes + 1
      ]_vars

C2_Witness ==
    /\ pc = "direct"
    /\ hist.okWrites > 0
    /\ hist.rejected > 0
    /\ out.op = "Close" /\ out.err = Nil
    /\ resp.arg2.written /\ resp.arg2.headers = [k \in {"foo"} |-> "bar"]
    /\ resp.arg3Done

\* C3: a Close of a writer on which Write was never called flushes the
\* pending headers to the transport and finalizes a zero-length body.
C3_CloseWithoutWriteFlushesHeaders ==
    (out.op = "Close" /\ hist.writeCalls = 0) =>
        /\ resp.arg2.written
        /\ resp.arg2.headers = rw.headers
        /\ resp.arg3 = <<>>
        /\ resp.arg3Done

\* C4: when Handle returned an error, a system error was sent if and only
\* if no response body byte had been sent.
C4_SystemErrorOnlyBeforeBody ==
    (pc = "done" /\ hist.handlerRet \in HandlerErrs) =>
        (Len(resp.sysErrs) = 1 <=> Len(resp.arg3) = 0)

\* C5: when the handler panics, the panic does not leave the dispatcher,
\* one system error reports it to the peer, and the listener goes on.
C5_PanicRecovered ==
    hist.handlerRet = "panic" =>
        pc = "done" /\ Len(resp.sysErrs) = 1

\* C6: a call whose context has no deadline is rejected with exactly one
\* SendSystemError(ErrTimeoutRequired); the handler is not invoked, neither
\* arg reader is opened, no response writer exists and nothing is written.
C6_MissingDeadlineRejected ==
    (served > 0 /\ ~call.hasDeadline) =>
        /\ pc = "done"
        /\ resp.sysErrs = <<ErrTimeoutRequired>>
        /\ hist.handlerCalls = 0
        /\ req.arg2Reads = 0 /\ req.arg3Reads = 0
        /\ rw = NoRW
        /\ resp.arg2Calls = 0 /\ resp.arg3Calls = 0
        /\ ~resp.arg2.written /\ resp.arg3 = <<>>

C6_Witness ==
    /\ served = MaxCalls
    /\ ~call.hasDeadline
    /\ pc = "done"
    /\ Len(resp.sysErrs) = 1

\* Position of the first occurrence of event e in the log, 0 if absent.
Pos(e) ==
    IF \E i \in 1..Len(hist.log) : hist.log[i] = e
    THEN CHOOSE i \in 1..Len(hist.log) :
            hist.log[i] = e /\ \A j \in 1..(i - 1) : hist.log[j] # e
    ELSE 0

Count(e) == Cardinality({i \in 1..Len(hist.log) : hist.log[i] = e})

\* C7: the request body of a call (the arg3 reader, once opened) is closed
\* exactly once, and only after Handle is over: never while the handler
\* runs, and once on every way out of Handle (nil, error, panic).  A call
\* rejected before its body was opened has no body and none is closed.
C7_BodyClosedOnceAfterHandle ==
    /\ pc = "handling" => req.bodyOpen /\ req.bodyCloses = 0
    /\ CallOver =>
        /\ req.bodyCloses = (IF req.bodyOpen THEN 1 ELSE 0)
        /\ Count("body.Close") = req.bodyCloses
        /\ hist.handlerCalls = (IF req.bodyOpen THEN 1 ELSE 0)
        /\ req.bodyOpen =>
            \/ 0 < Pos("Handle returned") /\ Pos("Handle returned") < Pos("body.Close")
            \/ 0 < Pos("Handle panicked") /\ Pos("Handle panicked") < Pos("body.Close")

C7_Witness ==
    /\ pc = "done"
    /\ hist.handlerRet \in HandlerErrs
    /\ req.bodyCloses = 1
    /\ Len(resp.arg3) > 0

\* C8 as stated: the response writer is closed on every exit path of a
\* call, the early rejections included.
C8_Original_ClosedOnEveryExit ==
    CallOver => hist.rwCloses = 1

\* C8 amended: the response writer is closed exactly once on every exit
\* path that follows its creation (handler returns nil, returns an error,
\* panics); an early rejection creates no response writer, closes none and
\* sends one system error.
C8_ClosedOnEveryExitAfterCreation ==
    CallOver =>
        /\ hist.handlerCalls = 1 =>
            /\ rw # NoRW
            /\ hist.rwCloses = 1
            /\ Count("rw.Close") = 1
            /\ resp.closes = (IF rw.bodyWriter # Nil THEN 1 ELSE 0)
        /\ hist.handlerCalls = 0 =>
            /\ rw = NoRW
            /\ hist.rwCloses = 0
            /\ Len(resp.sysErrs) = 1

C8_Witness ==
    /\ pc = "crashed"
    /\ hist.handlerRet = "panic"
    /\ hist.rwCloses = 1
    /\ resp.closes = 1

\* C9: AddHeaders merges only in state Open; once Write has been called
\* or the writer has been closed (also with no prior Write) it is refused.
C9_AddHeadersOnlyInOpen ==
    out.op = "AddHeaders" =>
        (out.panic <=> (hist.writeCalls > 0 \/ hist.rwCloses > 0))

\* C10: once a Write has failed with an I/O error, the writer keeps that
\* first error: every later Write returns it with 0 bytes and performs no
\* transport operation, and Close returns it.
C10_FirstWriteErrorSticky ==
    [][ hist.firstErr # Nil =>
          /\ rw.failedWith = hist.firstErr
          /\ rw'.failedWith = hist.firstErr
          /\ IsStep("Write") =>
                out'.err = hist.firstErr /\ out'.n = 0 /\ resp' = resp
          /\ IsStep("Close") => out'.err = hist.firstErr
      ]_vars

C10_Witness ==
    /\ pc = "direct"
    /\ hist.firstErr = ErrArg3
    /\ hist.writeCalls >= 2
    /\ out.op = "Close" /\ out.err = ErrArg3 /\ out.fault = "close"

\* C11: an I/O error raised while Close closes the body stream is stored
\* like a Write error: every later Write or Close returns that error and
\* performs no transport operation.
C11_CloseErrorSticky ==
    [][ (hist.closeRet = ErrClose /\ hist.firstErr = Nil
           /\ (IsStep("Write") \/ IsStep("Close")))
          => out'.err = ErrClose /\ resp' = resp
      ]_vars

\* C12: headers precede the body on the wire.  The body stream is opened,
\* and a body byte written, only after the header flush has succeeded; the
\* Write that flushes the headers is the one that opens the body stream,
\* and arg2 is requested before arg3.
C12_HeadersBeforeBody ==
    [][ /\ (resp'.arg3Calls > 0 \/ resp'.writes > 0 \/ Len(resp'.arg3) > 0)
            => resp'.arg2.written /\ resp'.arg2Calls > 0
        /\ resp'.writes > 0 => resp'.arg3Calls > 0
        /\ (~rw.wroteHeaders /\ IsStep("Write")) =>
            /\ resp'.arg2Calls = resp.arg2Calls + 1
            /\ out'.fault = "arg2" =>
                  out'.err = ErrArg2 /\ resp'.arg3Calls = 0 /\ resp'.writes = 0
            /\ out'.fault = "arg3" =>
                  resp'.arg2.written /\ resp'.arg3Calls = 1 /\ resp'.writes = 0
            /\ out'.fault \in {"none", "write"} =>
                  resp'.arg2.written /\ resp'.arg3Calls = 1 /\ resp'.writes = 1
      ]_vars

C12_Witness ==
    /\ pc = "direct"
    /\ resp.arg2.written /\ resp.arg2.headers = [k \in {"x"} |-> "y"]
    /\ resp.arg3Calls = 1
    /\ resp.arg3 = <<1, 2>>

\* Accepted AddHeaders calls so far.
Accepted == hist.ops - hist.writeCalls - hist.rwCloses - hist.rejected

\* C19: after AddHeaders calls, a successful Write and a Close, the peer
\* decodes from arg2, for each lower-cased key, the value of the last
\* AddHeaders that set it, and no other header.
C19_PeerSeesLastAddedHeaders ==
    (out.op = "Close" /\ hist.okWrites > 0) =>
        /\ resp.arg2.written
        /\ decodeHeaders(resp.arg2.format, resp.arg2.payload) = hist.lastSet

C19_Witness ==
    /\ pc = "direct"
    /\ out.op = "Close" /\ hist.okWrites > 0
    /\ Accepted = 2
    /\ decodeHeaders(resp.arg2.format, resp.arg2.payload)
         = [k \in {"foo", "x"} |-> IF k = "foo" THEN "y" ELSE "bar"]

\* C20: the body bytes on the wire are the concatenation, in call order, of
\* the slices of the Writes that succeeded, each passed to the body stream
\* once; a Close that follows them with no transport error ends the stream.
C20_BodyIsConcatenationOfWrites ==
    /\ resp.arg3 = hist.sent
    /\ hist.firstErr = Nil => resp.writes = hist.okWrites
    /\ (out.op = "Close" /\ out.fault = "none" /\ hist.okWrites > 0
          /\ hist.firstErr = Nil) => resp.arg3Done

C20_Witness ==
    /\ pc = "direct"
    /\ out.op = "Close" /\ out.err = Nil
    /\ hist.okWrites = 3
    /\ hist.sent = <<2, 1>>
    /\ resp.arg3 = <<2, 1>> /\ resp.arg3Done

\* C13: when the deadline of a call passed before Handle returned, the
\* terminal signal on the wire is a Timeout system error: no success
\* response and no Unexpected error.
C13_DeadlineExceededSignalled ==
    (pc = "done" /\ call.expired) =>
        /\ Len(resp.sysErrs) = 1
        /\ resp.sysErrs[1].code = "Timeout"
        /\ ~SuccessSent

----------------------------------------------------------------------------
(* Properties of the HTTP inbound *)

HTTPOver == pc = "http-done"
IsPost == call.method = "POST"
Has(n) == n \in DOMAIN call.headers
Addressed == Has(CallerHeader) /\ Has(ServiceHeader) /\ Has(ProcedureHeader)
\* The request carries no usable TTL: the header is absent or not an integer.
TTLBad == ~Has(TTLMSHeader) \/ call.headers[TTLMSHeader] = "not a number"
TextPlain == <<"text/plain; charset=utf8">>

Millis(v) == IF v = "1000" THEN 1000 ELSE IF v = "100" THEN 100 ELSE 0

\* C16: a valid POST for a procedure the router resolves invokes the handler
\* once, with a Request whose fields are the values of the Rpc- headers and
\* whose Transport is "http", under a context whose TTL is Context-TTL-MS
\* milliseconds; when the handler returns nil without writing, the response
\* is 200 with an empty body and Content-Type application/<encoding>.
C16_ValidPostDispatched ==
    (call # NoHTTPRequest /\ IsPost /\ Addressed /\ Has(EncodingHeader)
       /\ call.registered /\ ~TTLBad) =>
        /\ hist.handlerCalls = 1
        /\ req.chooses = 1
        /\ req.treq.Caller = call.headers[CallerHeader]
        /\ req.treq.Service = call.headers[ServiceHeader]
        /\ req.treq.Procedure = call.headers[ProcedureHeader]
        /\ req.treq.Encoding = call.headers[EncodingHeader]
        /\ req.treq.ShardKey = Get(call.headers, ShardKeyHeader)
        /\ req.treq.RoutingKey = Get(call.headers, RoutingKeyHeader)
        /\ req.treq.RoutingDelegate = Get(call.headers, RoutingDelegateHeader)
        /\ req.treq.Transport = "http"
        /\ req.ttl = Millis(call.headers[TTLMSHeader])
        /\ (HTTPOver /\ hist.handlerRet = "ok" /\ hist.writeCalls = 0) =>
            /\ resp.status = 200
            /\ resp.body = <<>>
            /\ resp.contentType = <<"application/", call.headers[EncodingHeader]>>
            /\ resp.finished /\ ~resp.aborted

C16_Witness ==
    /\ HTTPOver /\ hist.handlerCalls = 1
    /\ hist.handlerRet = "ok" /\ hist.writeCalls = 0
    /\ req.treq.ShardKey = "shard" /\ req.treq.Encoding = "json"
    /\ req.ttl = 100
    /\ resp.status = 200

\* C17: the user headers of the Request handed to the handler are, for each
\* request header Rpc-Header-<X>, lower(<X>) with its value, and each header
\* whose lower-cased name is in the grab-headers allowlist under that name;
\* no other request header appears.
C17_UserHeaders ==
    hist.handlerCalls = 1 =>
        LET got == req.treq.Headers
            names == DOMAIN call.headers
            app(n) == n.prefix = "Rpc-Header-"
            grab(n) == n.prefix = "" /\ Lower(n.rest) \in call.grabHeaders
        IN  /\ \A n \in names : (app(n) \/ grab(n)) =>
                    /\ Lower(n.rest) \in DOMAIN got
                    /\ got[Lower(n.rest)] = call.headers[n]
            /\ \A k \in DOMAIN got :
                    \E n \in names : (app(n) \/ grab(n)) /\ Lower(n.rest) = k
            /\ \A n \in names : n.prefix = "Rpc-" =>
                    (Lower(n.rest) \in DOMAIN got =>
                        \E m \in names : (app(m) \/ grab(m)) /\ Lower(m.rest) = Lower(n.rest))

C17_Witness ==
    /\ hist.handlerCalls = 1
    /\ HeaderName("Rpc-", "Foo") \in DOMAIN call.headers
    /\ HeaderName("", "X-Other") \in DOMAIN call.headers
    /\ req.treq.Headers = [k \in {"x-baz"} |-> "bat"]

\* C18: when the handler returns an unclassified error without having
\* written a body, the status is 5xx and the body is the text
\* error for service "<svc>" and procedure "<proc>": <msg>, then a newline.
C18_HandlerErrorResponse ==
    (HTTPOver /\ hist.handlerRet = "unknown" /\ hist.writeCalls = 0) =>
        /\ resp.status >= 500 /\ resp.status < 600
        /\ resp.body = <<"error for service \"", call.headers[ServiceHeader],
                         "\" and procedure \"", call.headers[ProcedureHeader],
                         "\": ", out.err, "\n">>

C18_Witness ==
    /\ HTTPOver /\ hist.handlerRet = "unknown" /\ hist.writeCalls = 0
    /\ out.err = "great sadness"
    /\ resp.status = 500
    /\ hist.ops > 0

----------------------------------------------------------------------------
(* Properties of the TChannel inbound: the request side and the end of a   *)
(* call                                                                    *)

\* C21: whenever the dispatcher invokes the handler, the Request it passes
\* has Service, Caller, Procedure and Encoding equal to the call's
\* ServiceName(), CallerName(), MethodString() and Format(), Headers equal
\* to the headers read from arg2 and Body equal to the arg3 reader; and the
\* handler is invoked at most once per call.
C21_RequestFromCall ==
    /\ hist.handlerCalls <= 1
    /\ pc \in {"idle", "handling", "done", "crashed"} =>
            Count("Handle") = hist.handlerCalls
    /\ pc = "handling" => hist.handlerCalls = 1
    /\ (hist.handlerCalls = 1 /\ pc \in {"handling", "done", "crashed"}) =>
        /\ req.treq.made
        /\ req.treq.Service = call.service
        /\ req.treq.Caller = call.caller
        /\ req.treq.Procedure = call.method
        /\ req.treq.Encoding = call.format
        /\ req.treq.Headers = call.headers
        /\ req.treq.Body = "arg3"
        /\ req.arg2Reads = 1 /\ req.arg3Reads = 1

C21_Witness ==
    /\ pc = "handling"
    /\ served = 2
    /\ hist.handlerCalls = 1
    /\ req.treq.Service = "fake" /\ req.treq.Caller = "somecaller"
    /\ req.treq.Procedure = "hello" /\ req.treq.Encoding = "json"
    /\ req.treq.Headers = [k \in {"k"} |-> "v"]

\* C22: Closed is a terminal state of the response writer: once Close has
\* returned, a Write or AddHeaders call changes nothing in the writer and
\* performs no transport operation (no header flush, no body stream open,
\* no body write), so that Failed is not entered from Closed.
C22_ClosedIsTerminal ==
    [][ (hist.rwCloses > 0 /\ (IsStep("Write") \/ IsStep("AddHeaders")))
            => /\ rw' = rw
               /\ resp' = resp ]_vars

\* C23: when reading the arg2 headers fails, or opening the arg3 reader
\* fails, the dispatcher sends exactly one system error, of code
\* Unexpected, and returns: the handler is not invoked, no response writer
\* is created, Arg2Writer and Arg3Writer are not called, and after a header
\* failure the arg3 reader is not opened.
C23_ReadFailureRejected ==
    (served > 0 /\ call.hasDeadline /\ (~call.arg2ok \/ ~call.arg3ok)) =>
        /\ pc = "done"
        /\ Len(resp.sysErrs) = 1
        /\ resp.sysErrs[1].code = "Unexpected"
        /\ hist.handlerCalls = 0
        /\ rw = NoRW
        /\ resp.arg2Calls = 0 /\ resp.arg3Calls = 0
        /\ ~resp.arg2.written /\ resp.arg3 = <<>>
        /\ req.arg2Reads = 1
        /\ req.arg3Reads = (IF call.arg2ok THEN 1 ELSE 0)
        /\ ~req.bodyOpen /\ req.bodyCloses = 0

C23_Witness ==
    /\ pc = "done"
    /\ call.hasDeadline /\ ~call.arg2ok /\ call.arg3ok
    /\ resp.sysErrs = <<SystemError("Unexpected", "failed to read headers")>>
    /\ req.arg3Reads = 0

\* C24: over any sequence of AddHeaders, Write and Close calls on one
\* responseWriter, Arg2Writer is requested at most once and Arg3Writer at
\* most once; after a header flush or a body stream open has failed, no
\* later call requests either again.
C24_ArgWritersRequestedOnce ==
    [][ /\ resp'.arg2Calls <= 1
        /\ resp'.arg3Calls <= 1
        /\ hist.firstErr \in {ErrArg2, ErrArg3} =>
            /\ resp'.arg2Calls = resp.arg2Calls
            /\ resp'.arg3Calls = resp.arg3Calls
            /\ resp'.writes = resp.writes ]_vars

C24_Witness ==
    /\ pc = "direct"
    /\ out.op = "Write"
    /\ hist.writeCalls = 2 /\ hist.rwCloses = 1
    /\ hist.firstErr = ErrArg3
    /\ resp.arg2Calls = 1 /\ resp.arg3Calls = 1

\* e1 and e2 both happened in the current call, e1 first.
Before(e1, e2) == 0 < Pos(e1) /\ Pos(e1) < Pos(e2)

\* C25: the events that end a call are strictly ordered: Handle is over,
\* then (only if it returned an error) SendSystemError, then rw.Close (which
\* closes the arg3 body writer if one was opened), then the close of the
\* request body; neither close happens while Handle runs, and the request
\* body is never closed before the response writer.
C25_EndOfCallOrder ==
    /\ pc = "handling" =>
        /\ Count("rw.Close") = 0 /\ hist.rwCloses = 0 /\ resp.closes = 0
        /\ Count("body.Close") = 0 /\ req.bodyCloses = 0
        /\ Count("SendSystemError") = 0 /\ resp.sysErrs = <<>>
    /\ (CallOver /\ hist.handlerCalls = 1) =>
        /\ Before("Handle", IF pc = "done" THEN "Handle returned" ELSE "Handle panicked")
        /\ Count("Handle returned") = (IF pc = "done" THEN 1 ELSE 0)
        /\ Count("Handle panicked") = (IF pc = "done" THEN 0 ELSE 1)
        /\ Before(IF pc = "done" THEN "Handle returned" ELSE "Handle panicked", "rw.Close")
        /\ Before("rw.Close", "body.Close")
        /\ Count("rw.Close") = 1 /\ Count("body.Close") = 1
        /\ Pos("body.Close") = Len(hist.log)
        /\ IF pc = "done" /\ hist.handlerRet # Nil
           THEN /\ Count("SendSystemError") = 1
                /\ Len(resp.sysErrs) = 1
                /\ Before("Handle returned", "SendSystemError")
                /\ Before("SendSystemError", "rw.Close")
           ELSE Count("SendSystemError") = 0 /\ resp.sysErrs = <<>>
        /\ IF rw.bodyWriter # Nil
           THEN /\ Count("bodyWriter.Close") = 1
                /\ resp.closes = 1
                /\ Before("rw.Close", "bodyWriter.Close")
                /\ Before("bodyWriter.Close", "body.Close")
           ELSE Count("bodyWriter.Close") = 0 /\ resp.closes = 0

C25_Witness ==
    /\ pc = "done"
    /\ hist.handlerRet \in HandlerErrs
    /\ rw.bodyWriter # Nil
    /\ hist.log = <<"Handle", "Handle returned", "SendSystemError", "rw.Close",
                    "bodyWriter.Close", "body.Close">>

----------------------------------------------------------------------------
(* Properties of the echo result helper *)

\* C26: whenever WrapResponse(success, err) returns a nil error, the
\* Echo_Echo_Result it returns is serializable: ToWire on it succeeds for
\* every success value, a nil *Pong included, whose own ToWire does not
\* fail; and whenever err is non-nil, WrapResponse returns (nil, err).
C26_WrappedResultSerializable ==
    /\ (pc \in {"echo-wrapped", "echo-sent", "echo-failed"} /\ call.err # Nil) =>
            resp.result = NilResult /\ resp.err = call.err
    /\ (pc \in {"echo-sent", "echo-failed"} /\ resp.err = Nil
          /\ call.success.wireErr = Nil) =>
            /\ pc = "echo-sent"
            /\ out.err = Nil
            /\ out.value.isStruct

====
